---- MODULE Spec2Model ----
(***************************************************************************)
(* Model of moji.go of go-readline-ny: the composer string2moji, the      *)
(* flattener moji2string, and the Width / WriteTo / PrintTo methods of    *)
(* the Moji variants, run against an io.Writer that may fail.             *)
(*                                                                         *)
(* A Moji is a tuple whose first element is the Go type name:              *)
(*   <<"RawCodePoint", ch>>, <<"WavingWhiteFlagCodePoint", ch>>,           *)
(*   <<"ZeroWidthJoinSequence", s0, s1>>, <<"VariationSequence", s0, s1>>, *)
(*   <<"ModifierSequence", s0, s1>>.                                       *)
(* A string is the sequence of its code points; the writer's output is a   *)
(* sequence of bytes.                                                      *)
(***************************************************************************)
EXTENDS Integers, Sequences, FiniteSets, TLC

VARIABLES
    ZeroWidthJoinSequenceOk,  \* capability flag, moji.go:23
    VariationSequenceOk,      \* capability flag, moji.go:27
    ModifierSequenceOk,       \* capability flag, moji.go:31
    s,                        \* the input of string2moji, as code points
    i,                        \* loop index of string2moji (0-based, as in Go)
    mojis,                    \* the slice string2moji builds
    pc,                       \* "compose", "composed", "flattened", "written", "printed", "panic"
    str,                      \* the bytes moji2string returned
    unit,                     \* the Moji that WriteTo / PrintTo was called on
    w,                        \* the io.Writer after the call
    res                       \* what the call returned: [n, err]

vars == <<ZeroWidthJoinSequenceOk, VariationSequenceOk, ModifierSequenceOk,
          s, i, mojis, pc, str, unit, w, res>>

----------------------------------------------------------------------------
(* Bounds of the model. *)

\* longest input drawn from the whole alphabet
MaxLen == 4
\* most joiners in an input  b0 J b1 J ... J bk  of ordinary bases
MaxJoin == 2
\* latest Write call of a writer that is made to fail
MaxFailAt == 8
\* most columns the terminal advances for one content code point
MaxAdvance == 2

----------------------------------------------------------------------------
(* Code points. *)

zeroWidthJoinRune == 8205

\* unicode.Join_Control: U+200C ZERO WIDTH NON-JOINER, U+200D ZERO WIDTH JOINER
Join_Control == {8204, 8205}

\* unicode.Variation_Selector, restricted to U+FE0F
Variation_Selector == {65039}

\* U+1F3F3 WAVING WHITE FLAG
WavingWhiteFlag == {127987}

\* ordinary base code points: 'a' (narrow) and U+3042 (wide)
OrdinaryRunes == {97, 12354}

\* the alphabet of the inputs of length <= MaxLen: 'a', the flag, both
\* Join_Control code points, a variation selector, a skin-tone modifier
Alphabet == {97, 127987, 8204, 8205, 65039, 127995}

RawCodePoint(ch) == <<"RawCodePoint", ch>>

WavingWhiteFlagCodePoint(ch) == <<"WavingWhiteFlagCodePoint", ch>>

ZeroWidthJoinSequence(s0, s1) == <<"ZeroWidthJoinSequence", s0, s1>>

ModifierSequence(s0, s1) == <<"ModifierSequence", s0, s1>>

VariationSequence(s0, s1) == <<"VariationSequence", s0, s1>>

TypeOf(m) == m[1]

IsCodePoint(m) == TypeOf(m) \in {"RawCodePoint", "WavingWhiteFlagCodePoint"}

\* rune2moji: the flag code point gets its own type, any other is raw
rune2moji(ch) ==
    IF ch \in WavingWhiteFlag THEN WavingWhiteFlagCodePoint(ch) ELSE RawCodePoint(ch)

----------------------------------------------------------------------------
(* The classifiers of string2moji. *)

\* faulty variant: the flag is not consulted
isZeroWidthJoin_Ungated(r) == r \in Join_Control

isZeroWidthJoin(r) == ZeroWidthJoinSequenceOk /\ r \in Join_Control

isEmojiModifier(ch) ==
    IF ~ModifierSequenceOk THEN FALSE ELSE 127995 <= ch /\ ch <= 127999

isVariationSelectorLike(ch) == VariationSequenceOk /\ ch \in Variation_Selector

----------------------------------------------------------------------------
(* string2moji, one action per branch of the loop body. *)

\* runes[i] of the Go code
runes(k) == s[k + 1]

\* mojis[len(mojis)-1] = m
ReplaceLast(ms, m) == [ms EXCEPT ![Len(ms)] = m]

ZeroWidthJoinCond == isZeroWidthJoin(runes(i)) /\ i > 0 /\ i + 1 < Len(s)

\* faulty variant: the rule fires with no unit before it
VariationCond_NoGuard == isVariationSelectorLike(runes(i))

VariationCond == isVariationSelectorLike(runes(i)) /\ i > 0

ModifierCond == isEmojiModifier(runes(i)) /\ i > 0

\* the three replacing branches index mojis[len(mojis)-1]: on an empty slice
\* Go panics (index out of range)
Replace(m, step) ==
    IF mojis = <<>>
    THEN /\ pc' = "panic"
         /\ UNCHANGED <<mojis, i>>
    ELSE /\ mojis' = ReplaceLast(mojis, m)
         /\ i' = i + step
         /\ pc' = "compose"

Looping == pc = "compose" /\ i < Len(s)

StepZeroWidthJoin ==
    /\ Looping
    /\ ZeroWidthJoinCond
    /\ Replace(ZeroWidthJoinSequence(mojis[Len(mojis)], RawCodePoint(runes(i + 1))), 2)
    /\ UNCHANGED <<ZeroWidthJoinSequenceOk, VariationSequenceOk, ModifierSequenceOk,
                   s, str, unit, w, res>>

StepVariation ==
    /\ Looping
    /\ ~ZeroWidthJoinCond
    /\ VariationCond
    /\ Replace(VariationSequence(mojis[Len(mojis)], RawCodePoint(runes(i))), 1)
    /\ UNCHANGED <<ZeroWidthJoinSequenceOk, VariationSequenceOk, ModifierSequenceOk,
                   s, str, unit, w, res>>

StepModifier ==
    /\ Looping
    /\ ~ZeroWidthJoinCond
    /\ ~VariationCond
    /\ ModifierCond
    /\ Replace(ModifierSequence(mojis[Len(mojis)], RawCodePoint(runes(i))), 1)
    /\ UNCHANGED <<ZeroWidthJoinSequenceOk, VariationSequenceOk, ModifierSequenceOk,
                   s, str, unit, w, res>>

StepAppend ==
    /\ Looping
    /\ ~ZeroWidthJoinCond
    /\ ~VariationCond
    /\ ~ModifierCond
    /\ mojis' = Append(mojis, rune2moji(runes(i)))
    /\ i' = i + 1
    /\ UNCHANGED <<ZeroWidthJoinSequenceOk, VariationSequenceOk, ModifierSequenceOk,
                   s, pc, str, unit, w, res>>

\* the loop condition fails: return mojis
Return ==
    /\ pc = "compose"
    /\ i >= Len(s)
    /\ pc' = "composed"
    /\ UNCHANGED <<ZeroWidthJoinSequenceOk, VariationSequenceOk, ModifierSequenceOk,
                   s, i, mojis, str, unit, w, res>>

----------------------------------------------------------------------------
(* Bytes: UTF-8, as writeRune encodes a code point and []rune(s) decodes. *)

Utf8(r) ==
    IF r < 128 THEN <<r>>
    ELSE IF r < 2048 THEN <<192 + (r \div 64), 128 + (r % 64)>>
    ELSE IF r < 65536
         THEN <<224 + (r \div 4096), 128 + ((r \div 64) % 64), 128 + (r % 64)>>
    ELSE <<240 + (r \div 262144), 128 + ((r \div 4096) % 64),
           128 + ((r \div 64) % 64), 128 + (r % 64)>>

\* the number of bytes of the encoding that starts with byte b
Utf8Len(b) == IF b < 128 THEN 1 ELSE IF b < 224 THEN 2 ELSE IF b < 240 THEN 3 ELSE 4

\* the code point encoded by the bytes bs
Utf8Rune(bs) ==
    IF Len(bs) = 1 THEN bs[1]
    ELSE IF Len(bs) = 2 THEN (bs[1] - 192) * 64 + (bs[2] - 128)
    ELSE IF Len(bs) = 3
         THEN (bs[1] - 224) * 4096 + (bs[2] - 128) * 64 + (bs[3] - 128)
    ELSE (bs[1] - 240) * 262144 + (bs[2] - 128) * 4096
         + (bs[3] - 128) * 64 + (bs[4] - 128)

\* []rune(string(bs)) for well-formed bs
RECURSIVE DecodeRunes(_)
DecodeRunes(bs) ==
    IF bs = <<>> THEN <<>>
    ELSE LET n == IF Utf8Len(bs[1]) <= Len(bs) THEN Utf8Len(bs[1]) ELSE Len(bs)
         IN  <<Utf8Rune(SubSeq(bs, 1, n))>> \o DecodeRunes(SubSeq(bs, n + 1, Len(bs)))

----------------------------------------------------------------------------
(* The io.Writer.  Its Write call number failAt fails (0: none does); the  *)
(* failing call writes nothing, or, with partial, all but the last byte.   *)
(* err is 0 for nil, else the number of the Write call that failed.        *)

Write(wr, p) ==
    LET c   == wr.calls + 1
        bad == c = wr.failAt
        k   == IF ~bad THEN Len(p) ELSE IF wr.partial THEN Len(p) - 1 ELSE 0
    IN  [w   |-> [wr EXCEPT !.out = @ \o SubSeq(p, 1, k),
                            !.calls = c,
                            !.reported = @ + k,
                            !.failed = IF bad /\ @ = 0 THEN c ELSE @],
         n   |-> k,
         err |-> IF bad THEN c ELSE 0]

writeRune(wr, r) == Write(wr, Utf8(r))

----------------------------------------------------------------------------
(* The display width of one code point (the width table). *)

RuneWidth(ch) ==
    CASE ch \in Join_Control -> 0
      [] ch \in Variation_Selector -> 0
      [] ch = 97 -> 1
      [] ch \in WavingWhiteFlag -> 1
      [] OTHER -> 2

----------------------------------------------------------------------------
(* Width, WriteTo and PrintTo of the Moji variants. *)

RECURSIVE Width(_), WriteTo(_, _), PrintTo(_, _)

RawCodePoint_Width(m) == RuneWidth(m[2])

RawCodePoint_WriteTo(m, wr) == writeRune(wr, m[2])

RawCodePoint_PrintTo(m, wr) == writeRune(wr, m[2]).w

\* faulty variant: the joiner's column is not counted
ZeroWidthJoinSequence_Width_NoJoiner(m) == Width(m[2]) + Width(m[3])

ZeroWidthJoinSequence_Width(m) == Width(m[2]) + 1 + Width(m[3])

\* faulty variant: a failing joiner write loses the joiner's byte count
ZeroWidthJoinSequence_WriteTo_DropsCount(m, wr) ==
    LET r1 == WriteTo(m[2], wr)
    IN  IF r1.err # 0 THEN r1
        ELSE LET r2 == writeRune(r1.w, zeroWidthJoinRune)
             IN  IF r2.err # 0 THEN [w |-> r2.w, n |-> r1.n, err |-> r2.err]
                 ELSE LET r3 == WriteTo(m[3], r2.w)
                      IN  [w |-> r3.w, n |-> r1.n + r2.n + r3.n, err |-> r3.err]

ZeroWidthJoinSequence_WriteTo(m, wr) ==
    LET r1 == WriteTo(m[2], wr)
    IN  IF r1.err # 0 THEN r1
        ELSE LET r2 == writeRune(r1.w, zeroWidthJoinRune)
             IN  IF r2.err # 0 THEN [w |-> r2.w, n |-> r1.n + r2.n, err |-> r2.err]
                 ELSE LET r3 == WriteTo(m[3], r2.w)
                      IN  [w |-> r3.w, n |-> r1.n + r2.n + r3.n, err |-> r3.err]

ModifierSequence_Width(m) == Width(m[2]) + Width(m[3])

ModifierSequence_WriteTo(m, wr) ==
    LET r1 == WriteTo(m[2], wr)
    IN  IF r1.err # 0 THEN r1
        ELSE LET r2 == WriteTo(m[3], r1.w)
             IN  [w |-> r2.w, n |-> r1.n + r2.n, err |-> r2.err]

ModifierSequence_PrintTo(m, wr) == WriteTo(m, wr).w

VariationSequence_Width(m) ==
    IF TypeOf(m[2]) = "WavingWhiteFlagCodePoint"
    THEN Width(m[2])
    ELSE Width(m[2]) + 1

VariationSequence_WriteTo(m, wr) ==
    LET r1 == WriteTo(m[2], wr)
    IN  IF r1.err # 0 THEN r1
        ELSE LET r2 == WriteTo(m[3], r1.w)
             IN  [w |-> r2.w, n |-> r1.n + r2.n, err |-> r2.err]

\* n calls w.Write([]byte{b}), whatever each returns
RECURSIVE WriteN(_, _, _)
WriteN(wr, b, n) == IF n <= 0 THEN wr ELSE WriteN(Write(wr, <<b>>).w, b, n - 1)

\* faulty variant: the cursor is saved before the padding
saveCursorAfterN_SaveFirst(wr, n) ==
    WriteN(WriteN(Write(wr, <<27, 55>>).w, 32, n), 8, n)

saveCursorAfterN(wr, n) ==
    WriteN(Write(WriteN(wr, 32, n), <<27, 55>>).w, 8, n)

restoreCursor(wr) == Write(wr, <<27, 56>>).w

\* faulty variant: the flag case is missing
ZeroWidthJoinSequence_PrintTo_NoAnchor(m, wr) ==
    LET w1 == PrintTo(m[2], wr)
        w2 == writeRune(w1, zeroWidthJoinRune).w
    IN  PrintTo(m[3], w2)

ZeroWidthJoinSequence_PrintTo(m, wr) ==
    IF TypeOf(m[2]) = "WavingWhiteFlagCodePoint"
    THEN LET w1 == saveCursorAfterN(wr, Width(m))
             w2 == WriteTo(m[2], w1).w
             w3 == writeRune(w2, zeroWidthJoinRune).w
             w4 == WriteTo(m[3], w3).w
         IN  restoreCursor(w4)
    ELSE LET w1 == PrintTo(m[2], wr)
             w2 == writeRune(w1, zeroWidthJoinRune).w
         IN  PrintTo(m[3], w2)

\* faulty variant: the padding is as wide as the base, not as the sequence
VariationSequence_PrintTo_BaseWidth(m, wr) ==
    LET w1 == saveCursorAfterN(wr, Width(m[2]))
        w2 == WriteTo(m[2], w1).w
        w3 == WriteTo(m[3], w2).w
    IN  restoreCursor(w3)

\* faulty variant: the base is printed, not written, inside the bracket
VariationSequence_PrintTo_Nested(m, wr) ==
    LET w1 == saveCursorAfterN(wr, Width(m))
        w2 == PrintTo(m[2], w1)
        w3 == WriteTo(m[3], w2).w
    IN  restoreCursor(w3)

VariationSequence_PrintTo(m, wr) ==
    LET w1 == saveCursorAfterN(wr, Width(m))
        w2 == WriteTo(m[2], w1).w
        w3 == WriteTo(m[3], w2).w
    IN  restoreCursor(w3)

Width(m) ==
    CASE TypeOf(m) = "ZeroWidthJoinSequence" -> ZeroWidthJoinSequence_Width(m)
      [] TypeOf(m) = "ModifierSequence" -> ModifierSequence_Width(m)
      [] TypeOf(m) = "VariationSequence" -> VariationSequence_Width(m)
      [] OTHER -> RawCodePoint_Width(m)

WriteTo(m, wr) ==
    CASE TypeOf(m) = "ZeroWidthJoinSequence" -> ZeroWidthJoinSequence_WriteTo(m, wr)
      [] TypeOf(m) = "ModifierSequence" -> ModifierSequence_WriteTo(m, wr)
      [] TypeOf(m) = "VariationSequence" -> VariationSequence_WriteTo(m, wr)
      [] OTHER -> RawCodePoint_WriteTo(m, wr)

PrintTo(m, wr) ==
    CASE TypeOf(m) = "ZeroWidthJoinSequence" -> ZeroWidthJoinSequence_PrintTo(m, wr)
      [] TypeOf(m) = "ModifierSequence" -> ModifierSequence_PrintTo(m, wr)
      [] TypeOf(m) = "VariationSequence" -> VariationSequence_PrintTo(m, wr)
      [] OTHER -> RawCodePoint_PrintTo(m, wr)

\* moji2string: every unit's WriteTo on one strings.Builder, which never fails
RECURSIVE WriteAll(_, _)
WriteAll(ms, wr) ==
    IF ms = <<>> THEN wr ELSE WriteAll(Tail(ms), WriteTo(Head(ms), wr).w)

NewWriter(failAt, partial) ==
    [out |-> <<>>, calls |-> 0, reported |-> 0, failed |-> 0,
     failAt |-> failAt, partial |-> partial]

moji2string(ms) == WriteAll(ms, NewWriter(0, FALSE)).out

----------------------------------------------------------------------------
(* The callers: flatten the composed units, or write / print one of them   *)
(* to a writer that fails at a chosen call.                                *)

Moji2String ==
    /\ pc = "composed"
    /\ str' = moji2string(mojis)
    /\ pc' = "flattened"
    /\ UNCHANGED <<ZeroWidthJoinSequenceOk, VariationSequenceOk, ModifierSequenceOk,
                   s, i, mojis, unit, w, res>>

CallWriteTo ==
    /\ pc = "composed"
    /\ \E k \in 1..Len(mojis), failAt \in 0..MaxFailAt, partial \in BOOLEAN :
          LET r == WriteTo(mojis[k], NewWriter(failAt, partial))
          IN  /\ unit' = mojis[k]
              /\ w' = r.w
              /\ res' = [n |-> r.n, err |-> r.err]
    /\ pc' = "written"
    /\ UNCHANGED <<ZeroWidthJoinSequenceOk, VariationSequenceOk, ModifierSequenceOk,
                   s, i, mojis, str>>

\* PrintTo returns nothing
CallPrintTo ==
    /\ pc = "composed"
    /\ \E k \in 1..Len(mojis), failAt \in 0..MaxFailAt, partial \in BOOLEAN :
          /\ unit' = mojis[k]
          /\ w' = PrintTo(mojis[k], NewWriter(failAt, partial))
    /\ pc' = "printed"
    /\ UNCHANGED <<ZeroWidthJoinSequenceOk, VariationSequenceOk, ModifierSequenceOk,
                   s, i, mojis, str, res>>

----------------------------------------------------------------------------
(* Inputs. *)

RECURSIVE StringsOfLen(_, _)
StringsOfLen(A, n) ==
    IF n = 0 THEN {<<>>}
    ELSE {Append(t, c) : t \in StringsOfLen(A, n - 1), c \in A}

StringsUpTo(A, n) == UNION {StringsOfLen(A, k) : k \in 0..n}

\* b0 J b1 J ... J bk: k+1 ordinary base code points separated by k joiners
RECURSIVE JoinChains(_)
JoinChains(k) ==
    IF k = 0 THEN {<<b>> : b \in OrdinaryRunes}
    ELSE {t \o <<j, b>> : t \in JoinChains(k - 1), j \in Join_Control, b \in OrdinaryRunes}

Inputs == StringsUpTo(Alphabet, MaxLen) \cup UNION {JoinChains(k) : k \in 1..MaxJoin}

NoResult == [n |-> 0, err |-> 0]

Init ==
    /\ ZeroWidthJoinSequenceOk \in BOOLEAN
    /\ VariationSequenceOk \in BOOLEAN
    /\ ModifierSequenceOk \in BOOLEAN
    /\ s \in Inputs
    /\ i = 0
    /\ mojis = <<>>
    /\ pc = "compose"
    /\ str = <<>>
    /\ unit = <<>>
    /\ w = NewWriter(0, FALSE)
    /\ res = NoResult

Next ==
    \/ StepZeroWidthJoin
    \/ StepVariation
    \/ StepModifier
    \/ StepAppend
    \/ Return
    \/ Moji2String
    \/ CallWriteTo
    \/ CallPrintTo

Spec == Init /\ [][Next]_vars

----------------------------------------------------------------------------
(* What the specification expects, stated without the writer. *)

\* the code points a unit stands for, left to right, the joiner as U+200D
RECURSIVE CodePoints(_)
CodePoints(m) ==
    CASE TypeOf(m) = "ZeroWidthJoinSequence" ->
            CodePoints(m[2]) \o <<8205>> \o CodePoints(m[3])
      [] TypeOf(m) \in {"VariationSequence", "ModifierSequence"} ->
            CodePoints(m[2]) \o CodePoints(m[3])
      [] OTHER -> <<m[2]>>

RECURSIVE EncodeRunes(_)
EncodeRunes(rs) == IF rs = <<>> THEN <<>> ELSE Utf8(Head(rs)) \o EncodeRunes(Tail(rs))

ContentBytes(m) == EncodeRunes(CodePoints(m))

Repeat(b, n) == [k \in 1..n |-> b]

SaveCursor == <<27, 55>>

RestoreCursor == <<27, 56>>

\* the cursor-anchor trick around a unit of width n
Anchored(n, content) ==
    Repeat(32, n) \o SaveCursor \o Repeat(8, n) \o content \o RestoreCursor

RECURSIVE HasType(_, _)
HasType(m, T) ==
    \/ TypeOf(m) = T
    \/ /\ ~IsCodePoint(m)
       /\ (HasType(m[2], T) \/ HasType(m[3], T))

\* the code point a unit was started from
RECURSIVE LeftmostLeaf(_)
LeftmostLeaf(m) == IF IsCodePoint(m) THEN m ELSE LeftmostLeaf(m[2])

\* nesting depth of a unit: 0 for a code point
RECURSIVE Depth(_)
Depth(m) ==
    IF IsCodePoint(m) THEN 0
    ELSE 1 + (IF Depth(m[2]) >= Depth(m[3]) THEN Depth(m[2]) ELSE Depth(m[3]))

\* how often the two bytes pat occur in bs
RECURSIVE Occurrences(_, _)
Occurrences(bs, pat) ==
    IF Len(bs) < 2 THEN 0
    ELSE (IF SubSeq(bs, 1, 2) = pat THEN 1 ELSE 0) + Occurrences(Tail(bs), pat)

\* ESC 7 and ESC 8 alternate in bs, ESC 7 first and ESC 8 last
RECURSIVE Alternate(_, _)
Alternate(bs, open) ==
    IF Len(bs) < 2 THEN ~open
    ELSE IF SubSeq(bs, 1, 2) = SaveCursor
         THEN ~open /\ Alternate(Tail(Tail(bs)), TRUE)
    ELSE IF SubSeq(bs, 1, 2) = RestoreCursor
         THEN open /\ Alternate(Tail(Tail(bs)), FALSE)
    ELSE Alternate(Tail(bs), open)

\* The terminal: space +1, backspace -1, ESC 7 saves the column, ESC 8
\* restores it, every content code point advances adv columns.
RECURSIVE Terminal(_, _, _, _)
Terminal(bs, col, saved, adv) ==
    IF bs = <<>> THEN col
    ELSE IF Len(bs) >= 2 /\ SubSeq(bs, 1, 2) = SaveCursor
         THEN Terminal(Tail(Tail(bs)), col, col, adv)
    ELSE IF Len(bs) >= 2 /\ SubSeq(bs, 1, 2) = RestoreCursor
         THEN Terminal(Tail(Tail(bs)), saved, saved, adv)
    ELSE IF bs[1] = 32 THEN Terminal(Tail(bs), col + 1, saved, adv)
    ELSE IF bs[1] = 8 THEN Terminal(Tail(bs), col - 1, saved, adv)
    ELSE IF bs[1] >= 128 /\ bs[1] < 192 THEN Terminal(Tail(bs), col, saved, adv)
    ELSE Terminal(Tail(bs), col + adv, saved, adv)

\* the column the cursor ends in, counted from where the unit started
Cursor(bs, adv) == Terminal(bs, 0, 0, adv)

\* what PrintTo of m is to emit on a writer that does not fail
RECURSIVE ExpectedPrint(_)
ExpectedPrint(m) ==
    CASE TypeOf(m) = "VariationSequence" -> Anchored(Width(m), ContentBytes(m))
      [] TypeOf(m) = "ZeroWidthJoinSequence" ->
            IF TypeOf(m[2]) = "WavingWhiteFlagCodePoint"
            THEN Anchored(Width(m), ContentBytes(m))
            ELSE ExpectedPrint(m[2]) \o Utf8(8205) \o ExpectedPrint(m[3])
      [] TypeOf(m) = "ModifierSequence" -> ContentBytes(m)
      [] OTHER -> RawCodePoint_PrintTo(m, NewWriter(0, FALSE)).out

IsComposite(m) == m # <<>> /\ ~IsCodePoint(m)

Printed(T) == pc = "printed" /\ TypeOf(unit) = T

FlagLeft(m) == TypeOf(m[2]) = "WavingWhiteFlagCodePoint"

----------------------------------------------------------------------------
(* C1 *)

\* C1: flattening is lossless: moji2string(string2moji(s)) has exactly the
\* code points of s, in order, whatever the flags.
C1_RoundTrip == pc = "flattened" => DecodeRunes(str) = s

----------------------------------------------------------------------------
(* C2 *)

\* C2 as stated: PrintTo of a ZWJSequence whose left operand is not the flag
\* code point emits Width() spaces, ESC 7, Width() backspaces, the WriteTo
\* content, ESC 8.
C2_AnchorByDefault ==
    (Printed("ZeroWidthJoinSequence") /\ ~FlagLeft(unit) /\ w.failed = 0)
        => w.out = Anchored(Width(unit), ContentBytes(unit))

\* C2 amended: PrintTo of a ZWJSequence uses the cursor-anchor trick exactly
\* when its left operand is the flag code point; for any other left operand
\* it emits the left operand's PrintTo output, the joiner U+200D and the right
\* operand's PrintTo output, with no padding or bracket of its own (no write
\* failing).
C2_AnchorOnlyForFlag ==
    (Printed("ZeroWidthJoinSequence") /\ w.failed = 0)
        => IF FlagLeft(unit)
           THEN w.out = Anchored(Width(unit), ContentBytes(unit))
           ELSE /\ w.out = ExpectedPrint(unit[2]) \o Utf8(8205) \o ExpectedPrint(unit[3])
                /\ (IsCodePoint(unit[2]) => Occurrences(w.out, SaveCursor) = 0)

C2_Witness ==
    /\ Printed("ZeroWidthJoinSequence")
    /\ FlagLeft(unit)
    /\ w.failed = 0
    /\ Occurrences(w.out, SaveCursor) = 1

----------------------------------------------------------------------------
(* C3 *)

\* C3: when a write fails during PrintTo of a unit, no further write is
\* issued for that unit and the failure is returned to the caller.
C3_PrintStopsAtFirstFailure ==
    (/\ pc = "printed"
     /\ TypeOf(unit) \in {"ZeroWidthJoinSequence", "VariationSequence"}
     /\ w.failed # 0)
        => /\ w.calls = w.failed
           /\ res.err = w.failed

----------------------------------------------------------------------------
(* C4 *)

\* C4: WriteTo of a composite unit stops at the first failing part: no later
\* part is written, the error returned is that failure, and the count
\* returned is the sum of the counts the parts reported up to and including
\* the failing one; with no failure it is the sum over all parts.
C4_WriteToStopsAtFirstFailure ==
    (pc = "written" /\ IsComposite(unit))
        => /\ res.err = w.failed
           /\ res.n = w.reported
           /\ res.n = Len(w.out)
           /\ (w.failed # 0 => w.calls = w.failed)
           /\ (w.failed = 0 => /\ w.out = ContentBytes(unit)
                               /\ w.calls = Len(CodePoints(unit)))

C4_Witness ==
    /\ pc = "written"
    /\ IsComposite(unit)
    /\ Depth(unit) >= 2
    /\ res.err = 2
    /\ res.n > Len(Utf8(LeftmostLeaf(unit)[2]))
    /\ w.calls < Len(CodePoints(unit))

----------------------------------------------------------------------------
(* C5 *)

\* C5 as stated: after PrintTo of any ZWJSequence or VariationSequence the
\* cursor is Width() columns right of the unit's start, whatever the terminal
\* advances for a content code point.
C5_CursorAfterAnySequence ==
    (/\ pc = "printed"
     /\ TypeOf(unit) \in {"ZeroWidthJoinSequence", "VariationSequence"}
     /\ w.failed = 0)
        => \A adv \in 0..MaxAdvance : Cursor(w.out, adv) = Width(unit)

\* C5 amended: after PrintTo of any VariationSequence, or of a ZWJSequence
\* whose left operand is the flag code point, the cursor is Width() columns
\* right of the unit's start, whatever the terminal advances for a content
\* code point (no write failing).
C5_CursorAfterAnchoredSequence ==
    (/\ pc = "printed"
     /\ \/ TypeOf(unit) = "VariationSequence"
        \/ TypeOf(unit) = "ZeroWidthJoinSequence" /\ FlagLeft(unit)
     /\ w.failed = 0)
        => \A adv \in 0..MaxAdvance : Cursor(w.out, adv) = Width(unit)

C5_Witness ==
    /\ Printed("VariationSequence")
    /\ w.failed = 0
    /\ Width(unit) >= 2
    /\ Cursor(w.out, 0) = Width(unit)
    /\ Cursor(w.out, MaxAdvance) = Width(unit)

----------------------------------------------------------------------------
(* C6 *)

\* C6: PrintTo of a VariationSequence emits, in this order, Width() spaces,
\* ESC 7, Width() backspaces, the base's WriteTo bytes, the selector's bytes,
\* ESC 8, with one ESC 7 and one ESC 8 whatever the depth of the base.
C6_VariationPrint ==
    (Printed("VariationSequence") /\ w.failed = 0)
        => /\ w.out = Repeat(32, Width(unit)) \o SaveCursor \o Repeat(8, Width(unit))
                        \o ContentBytes(unit[2]) \o Utf8(unit[3][2]) \o RestoreCursor
           /\ Occurrences(w.out, SaveCursor) = 1
           /\ Occurrences(w.out, RestoreCursor) = 1

C6_Witness ==
    /\ Printed("VariationSequence")
    /\ w.failed = 0
    /\ HasType(unit[2], "VariationSequence")
    /\ Occurrences(w.out, SaveCursor) = 1

----------------------------------------------------------------------------
(* C7 *)

NoneHasType(T) == \A k \in 1..Len(mojis) : ~HasType(mojis[k], T)

C7_Gated ==
    /\ ~ZeroWidthJoinSequenceOk => NoneHasType("ZeroWidthJoinSequence")
    /\ ~ModifierSequenceOk => NoneHasType("ModifierSequence")
    /\ (/\ ~ZeroWidthJoinSequenceOk
        /\ pc = "composed"
        /\ Len(s) = 3
        /\ s[1] \in OrdinaryRunes /\ s[2] \in Join_Control /\ s[3] \in OrdinaryRunes)
           => mojis = <<RawCodePoint(s[1]), RawCodePoint(s[2]), RawCodePoint(s[3])>>

\* the loop, reaching a skin-tone modifier with ModifierSequenceOk false,
\* appends it as a unit of its own
C7_ModifierAlone ==
    (/\ ~ModifierSequenceOk
     /\ Looping
     /\ 127995 <= runes(i) /\ runes(i) <= 127999)
        => mojis' = Append(mojis, RawCodePoint(runes(i)))

----------------------------------------------------------------------------
(* C8 *)

\* s is b0 J b1 J ... J bk with k >= 1, ordinary bases and joiners between
IsJoinChain(rs) ==
    /\ Len(rs) >= 3
    /\ Len(rs) % 2 = 1
    /\ \A k \in 1..Len(rs) :
          IF k % 2 = 1 THEN rs[k] \in OrdinaryRunes ELSE rs[k] \in Join_Control

\* ZWJ(...ZWJ(ZWJ(b0, b1), b2)..., bk)
RECURSIVE LeftNested(_)
LeftNested(rs) ==
    IF Len(rs) = 1 THEN RawCodePoint(rs[1])
    ELSE ZeroWidthJoinSequence(LeftNested(SubSeq(rs, 1, Len(rs) - 2)),
                               RawCodePoint(rs[Len(rs)]))

\* the widths of the bases (odd positions) of a chain, summed
RECURSIVE BaseWidths(_)
BaseWidths(rs) ==
    IF Len(rs) = 1 THEN RuneWidth(rs[1])
    ELSE BaseWidths(SubSeq(rs, 1, Len(rs) - 2)) + RuneWidth(rs[Len(rs)])

\* C8: with ZeroWidthJoinSequenceOk, k+1 ordinary base code points separated
\* by k joiners compose to one unit, nested to the left, whose Width() is the
\* sum of the base widths plus k.
C8_JoinChain ==
    (pc = "composed" /\ ZeroWidthJoinSequenceOk /\ IsJoinChain(s))
        => /\ mojis = <<LeftNested(s)>>
           /\ Width(mojis[1]) = BaseWidths(s) + (Len(s) - 1) \div 2

C8_Witness ==
    /\ pc = "composed"
    /\ ZeroWidthJoinSequenceOk
    /\ IsJoinChain(s)
    /\ Len(s) = 5
    /\ s[2] # s[4]
    /\ Len(mojis) = 1
    /\ Depth(mojis[1]) = 2

----------------------------------------------------------------------------
(* C9 *)

\* C9: a rule fires only when a unit precedes: the first code point of any
\* input becomes a unit of its own, also a joiner, selector or modifier, so
\* string2moji never replaces the last element of an empty slice and never
\* drops a leading code point.
C9_FirstCodePointIsAUnit ==
    /\ pc # "panic"
    /\ i >= 1 => /\ Len(mojis) >= 1
                 /\ LeftmostLeaf(mojis[1]) = rune2moji(s[1])
    /\ i = 1 => mojis = <<rune2moji(s[1])>>
    /\ (pc = "compose" /\ i = 0) => mojis = <<>>

C9_Witness ==
    /\ ZeroWidthJoinSequenceOk /\ VariationSequenceOk /\ ModifierSequenceOk
    /\ i = 1
    /\ Len(s) >= 2
    /\ s[1] \in Variation_Selector
    /\ mojis = <<RawCodePoint(s[1])>>

----------------------------------------------------------------------------
(* C10 *)

\* C10: in the bytes PrintTo of a composite unit emits, ESC 7 and ESC 8
\* alternate, ESC 7 first and ESC 8 last: no bracket opens inside another.
C10_BracketsNeverNest ==
    (pc = "printed" /\ IsComposite(unit) /\ w.failed = 0)
        => /\ Alternate(w.out, FALSE)
           /\ Occurrences(w.out, SaveCursor) = Occurrences(w.out, RestoreCursor)

C10_Witness ==
    /\ Printed("ZeroWidthJoinSequence")
    /\ w.failed = 0
    /\ HasType(unit[2], "VariationSequence")
    /\ Depth(unit) >= 2
    /\ Occurrences(w.out, SaveCursor) >= 1

====
